---- MODULE Spec2Model ----
(***************************************************************************)
(* CanvasETL: the MCP JSON-RPC route (POST /mcp), the zod schema of the   *)
(* summarize_context tool and the Markdown formatter.                     *)
(*                                                                         *)
(* Text.  A JavaScript string is a sequence of tokens.  A token is either  *)
(* one whitespace character (" ", "\n", "\t") or a non-empty run of        *)
(* non-whitespace characters; the literal pieces of a template string are  *)
(* tokens of their own and hold no line break.  A string is empty exactly  *)
(* when its sequence is, and a line break in a text is a "\n" token.       *)
(*                                                                         *)
(* JSON.  A scalar value is [t, s]: t its JSON type ("absent" for a        *)
(* missing key / undefined) and s its text when t = "str".  An array is    *)
(* [t, items]; an object is a record of its declared keys, a tag t and     *)
(* extra, the set of its keys that the schema does not declare.            *)
(***************************************************************************)
EXTENDS Integers, Sequences, FiniteSets, TLC

VARIABLES
    vargs,      \* SpecValidate: the arguments object handed to safeParse
    parsed,     \* SpecValidate: what safeParse returned
    edits,      \* SpecValidate: how many members the caller has set
    finput,     \* SpecFormat: the validated request handed to formatSummary
    ftext,      \* SpecFormat: the text formatSummary returned
    env,        \* Spec: process.env (DOC_WEBHOOK_URL, DOC_WEBHOOK_TOKEN)
    body,       \* Spec: the parsed JSON body of the POST
    pc,         \* Spec: where POST is
    idx,        \* Spec: index in the batch of the message being handled
    cur,        \* Spec: the handleMessage call awaiting fetch
    responses,  \* Spec: POST's responses array
    reply,      \* Spec: the HTTP reply
    posts,      \* Spec: webhook POST attempts, in order
    logs,       \* Spec: log() calls, in order
    events,     \* Spec: start/end of every handleMessage call, in order
    zod,        \* the major version of the zod package the build resolved
    lvalue      \* SpecLog: the metadata value handed to log()

vars == <<vargs, parsed, edits, finput, ftext, env, body, pc, idx, cur,
          responses, reply, posts, logs, events, zod, lvalue>>

validateVars == <<vargs, parsed, edits>>
formatVars == <<finput, ftext>>
routeVars == <<env, body, pc, idx, cur, responses, reply, posts, logs, events>>

----------------------------------------------------------------------------
(* Bounds *)

MaxEdits == 2       \* members a caller sets on top of the minimal arguments
MaxItems == 10      \* longest list handed to the formatter
MaxBatch == 2       \* longest batch body
MaxRun == 125       \* longest run of letters in a logged string

----------------------------------------------------------------------------
(* Sequences and text *)

Range(s) == {s[i] : i \in 1..Len(s)}

RECURSIVE Flatten(_)
Flatten(ss) == IF ss = <<>> THEN <<>> ELSE Head(ss) \o Flatten(Tail(ss))

\* Array.prototype.join
RECURSIVE Join(_, _)
Join(ss, sep) ==
    IF ss = <<>> THEN <<>>
    ELSE IF Len(ss) = 1 THEN ss[1]
    ELSE ss[1] \o sep \o Join(Tail(ss), sep)

NL == <<"\n">>

IsWs(c) == c \in {" ", "\n", "\t"}

\* text.replace(/\s+/g, " "): every maximal run of whitespace becomes one space
CollapseWs(s) ==
    LET marked == [i \in 1..Len(s) |->
                     [c |-> s[i], first |-> i = 1 \/ ~IsWs(s[i - 1])]]
        kept == SelectSeq(marked, LAMBDA x : ~IsWs(x.c) \/ x.first)
    IN [i \in 1..Len(kept) |-> IF IsWs(kept[i].c) THEN " " ELSE kept[i].c]

RECURSIVE TrimStart(_)
TrimStart(s) == IF s # <<>> /\ IsWs(s[1]) THEN TrimStart(Tail(s)) ELSE s

RECURSIVE TrimEnd(_)
TrimEnd(s) ==
    IF s # <<>> /\ IsWs(s[Len(s)]) THEN TrimEnd(SubSeq(s, 1, Len(s) - 1)) ELSE s

\* String.prototype.trim
Trim(s) == TrimEnd(TrimStart(s))

clean(text) == Trim(CollapseWs(text))

\* The lines of a text: its pieces between "\n" tokens
RECURSIVE SplitLines(_)
SplitLines(s) ==
    IF \A i \in 1..Len(s) : s[i] # "\n" THEN <<s>>
    ELSE LET k == CHOOSE i \in 1..Len(s) :
                      s[i] = "\n" /\ \A j \in 1..(i - 1) : s[j] # "\n"
         IN <<SubSeq(s, 1, k - 1)>> \o SplitLines(SubSeq(s, k + 1, Len(s)))

StartsWith(s, p) == Len(s) >= Len(p) /\ SubSeq(s, 1, Len(p)) = p

----------------------------------------------------------------------------
(* JSON values *)

Absent == [t |-> "absent", s |-> <<>>]
Str(s) == [t |-> "str", s |-> s]
Num == [t |-> "num", s |-> <<>>]
Null == [t |-> "null", s |-> <<>>]

AbsentList == [t |-> "absent", items |-> <<>>]
Arr(items) == [t |-> "arr", items |-> items]
NullList == [t |-> "null", items |-> <<>>]
StrList == [t |-> "str", items |-> <<>>]

\* zod's name of a received type
Received(t) == IF t = "absent" THEN "undefined"
               ELSE IF t = "num" THEN "number"
               ELSE IF t = "str" THEN "string"
               ELSE IF t = "arr" THEN "array"
               ELSE IF t = "obj" THEN "object"
               ELSE IF t = "bool" THEN "boolean"
               ELSE t

----------------------------------------------------------------------------
(* src/lib/schema.ts: the zod schemas.  A schema is an operator from a     *)
(* value and its path to the issues zod reports for it, in zod's order     *)
(* (the declared keys in order, depth first); the parsed value is built    *)
(* by the normalisation operators below.                                   *)

Issue(path, message) == [path |-> path, message |-> message]

\* import { z } from "zod": the source does not pin the package's version,
\* and the issue messages formatZodError prints are the library's own.  The
\* build resolves either major line; their default messages differ.
ZodVersions == {3, 4}

\* zod's invalid_type message; expected is the text naming the wanted type
InvalidType(expected, t) ==
    IF zod = 3
    THEN IF t = "absent" THEN <<"Required">>
         ELSE <<"Expected ">> \o expected \o <<", received ", Received(t)>>
    ELSE <<"Invalid input: expected ">> \o expected
         \o <<", received ", Received(t)>>

\* zod's too_small message of z.string().min(1)
TooSmall ==
    IF zod = 3 THEN <<"String must contain at least 1 character(s)">>
    ELSE <<"Too small: expected string to have >=1 characters">>

\* The options of an enum as the messages print them
EnumOptions(options) ==
    IF zod = 3
    THEN Join([i \in 1..Len(options) |-> <<"'", options[i], "'">>], <<" | ">>)
    ELSE Join([i \in 1..Len(options) |-> <<"\"", options[i], "\"">>], <<"|">>)

\* zod's message for a value that is none of the options: version 3 quotes
\* the received string as it came (invalid_enum_value), version 4 names the
\* options only (invalid_value), whatever the value's type
InvalidOption(options, v) ==
    IF zod = 3
    THEN IF v.t # "str" THEN InvalidType(EnumOptions(options), v.t)
         ELSE <<"Invalid enum value. Expected ">> \o EnumOptions(options)
              \o <<", received '">> \o v.s \o <<"'">>
    ELSE <<"Invalid option: expected one of ">> \o EnumOptions(options)

\* z.string().min(1)
trimmedString(v, path) ==
    IF v.t # "str" THEN <<Issue(path, InvalidType(<<"string">>, v.t))>>
    ELSE IF Len(v.s) < 1
         THEN <<Issue(path, TooSmall)>>
         ELSE <<>>

\* trimmedString.optional()
optionalTrimmedString(v, path) ==
    IF v.t = "absent" THEN <<>> ELSE trimmedString(v, path)

\* z.enum([...]): options are the literals; the value must be one of them
zEnum(options, v, path) ==
    IF v.t = "str" /\ \E i \in 1..Len(options) : v.s = <<options[i]>>
    THEN <<>>
    ELSE <<Issue(path, InvalidOption(options, v))>>

Digits == {"0", "1", "2", "3", "4", "5", "6", "7", "8", "9"}

\* /^\d{4}-\d{2}-\d{2}$/ on a string given one character per token
DateMatches(s) ==
    /\ Len(s) = 10
    /\ \A i \in {1, 2, 3, 4, 6, 7, 9, 10} : s[i] \in Digits
    /\ s[5] = "-"
    /\ s[8] = "-"

dateString(v, path) ==
    IF v.t # "str" THEN <<Issue(path, InvalidType(<<"string">>, v.t))>>
    ELSE IF ~DateMatches(v.s) THEN <<Issue(path, <<"Use YYYY-MM-DD">>)>>
    ELSE <<>>

\* z.object(...) in zod's default mode: keys the shape does not declare
\* raise no issue
unknownKeys(extra, path) == <<>>

\* ... and are left out of the parsed value
stripUnknown(extra) == {}

openQuestionSchema(item, path) ==
    IF item.t # "obj" THEN <<Issue(path, InvalidType(<<"object">>, item.t))>>
    ELSE trimmedString(item.question, path \o <<"question">>)
         \o optionalTrimmedString(item.owner, path \o <<"owner">>)
         \o optionalTrimmedString(item.due, path \o <<"due">>)
         \o unknownKeys(item.extra, path)

nextStepSchema(item, path) ==
    IF item.t # "obj" THEN <<Issue(path, InvalidType(<<"object">>, item.t))>>
    ELSE trimmedString(item.action, path \o <<"action">>)
         \o optionalTrimmedString(item.owner, path \o <<"owner">>)
         \o optionalTrimmedString(item.due, path \o <<"due">>)
         \o zEnum(<<"open", "done">>, item.status, path \o <<"status">>)
         \o unknownKeys(item.extra, path)

riskSchema(item, path) ==
    IF item.t # "obj" THEN <<Issue(path, InvalidType(<<"object">>, item.t))>>
    ELSE trimmedString(item.risk, path \o <<"risk">>)
         \o zEnum(<<"low", "med", "high">>, item.severity, path \o <<"severity">>)
         \o optionalTrimmedString(item.mitigation, path \o <<"mitigation">>)
         \o unknownKeys(item.extra, path)

stakeholderSchema(item, path) ==
    IF item.t # "obj" THEN <<Issue(path, InvalidType(<<"object">>, item.t))>>
    ELSE trimmedString(item.name, path \o <<"name">>)
         \o optionalTrimmedString(item.role, path \o <<"role">>)
         \o optionalTrimmedString(item.influence, path \o <<"influence">>)
         \o unknownKeys(item.extra, path)

evidenceSchema(item, path) ==
    IF item.t # "obj" THEN <<Issue(path, InvalidType(<<"object">>, item.t))>>
    ELSE zEnum(<<"conversation", "canvas">>, item.type, path \o <<"type">>)
         \o trimmedString(item.pointer, path \o <<"pointer">>)
         \o trimmedString(item.excerpt, path \o <<"excerpt">>)
         \o unknownKeys(item.extra, path)

\* z.array(element).optional().default([]): the issues, given those of the
\* elements (element i at path.<i - 1>)
zArray(list, path, elementIssues) ==
    IF list.t = "absent" THEN <<>>
    ELSE IF list.t # "arr" THEN <<Issue(path, InvalidType(<<"array">>, list.t))>>
    ELSE Flatten(elementIssues)

\* The path of element i of a list
At(path, i) == path \o <<ToString(i - 1)>>

\* The parsed value of an element: a string as it is, an object without the
\* keys its schema does not declare
stripItem(item) ==
    IF "extra" \in DOMAIN item THEN [item EXCEPT !.extra = stripUnknown(item.extra)]
    ELSE item

\* .optional() without .default([]): an absent array stays undefined
defaultArray_NoDefault(list) == list

\* .default([]): undefined becomes the empty array
defaultArray(list) == IF list.t = "absent" THEN Arr(<<>>) ELSE list

\* z.array(element).optional().default([]): the parsed value
parsedArray(list) ==
    LET l == defaultArray(list)
    IN IF l.t = "arr" THEN Arr([i \in 1..Len(l.items) |-> stripItem(l.items[i])]) ELSE l

ListFields == <<"key_points", "open_questions", "next_steps", "risks",
                "stakeholders", "evidence">>

contextSchema(c, path) ==
    IF c.t # "obj" THEN <<Issue(path, InvalidType(<<"object">>, c.t))>>
    ELSE trimmedString(c.summary, path \o <<"summary">>)
         \o zArray(c.key_points, path \o <<"key_points">>,
                   [i \in 1..Len(c.key_points.items) |->
                      trimmedString(c.key_points.items[i],
                                    At(path \o <<"key_points">>, i))])
         \o zArray(c.open_questions, path \o <<"open_questions">>,
                   [i \in 1..Len(c.open_questions.items) |->
                      openQuestionSchema(c.open_questions.items[i],
                                         At(path \o <<"open_questions">>, i))])
         \o zArray(c.next_steps, path \o <<"next_steps">>,
                   [i \in 1..Len(c.next_steps.items) |->
                      nextStepSchema(c.next_steps.items[i],
                                     At(path \o <<"next_steps">>, i))])
         \o zArray(c.risks, path \o <<"risks">>,
                   [i \in 1..Len(c.risks.items) |->
                      riskSchema(c.risks.items[i], At(path \o <<"risks">>, i))])
         \o zArray(c.stakeholders, path \o <<"stakeholders">>,
                   [i \in 1..Len(c.stakeholders.items) |->
                      stakeholderSchema(c.stakeholders.items[i],
                                        At(path \o <<"stakeholders">>, i))])
         \o zArray(c.evidence, path \o <<"evidence">>,
                   [i \in 1..Len(c.evidence.items) |->
                      evidenceSchema(c.evidence.items[i],
                                     At(path \o <<"evidence">>, i))])
         \o (IF c.last_updated.t = "absent" THEN <<>>
             ELSE dateString(c.last_updated, path \o <<"last_updated">>))
         \o unknownKeys(c.extra, path)

contextData(c) ==
    [t |-> "obj",
     summary |-> c.summary,
     key_points |-> parsedArray(c.key_points),
     open_questions |-> parsedArray(c.open_questions),
     next_steps |-> parsedArray(c.next_steps),
     risks |-> parsedArray(c.risks),
     stakeholders |-> parsedArray(c.stakeholders),
     evidence |-> parsedArray(c.evidence),
     last_updated |-> c.last_updated,
     extra |-> stripUnknown(c.extra)]

summarizeInputSchema(a, path) ==
    optionalTrimmedString(a.deal_id, path \o <<"deal_id">>)
    \o optionalTrimmedString(a.deal_name, path \o <<"deal_name">>)
    \o optionalTrimmedString(a.source_canvas_name, path \o <<"source_canvas_name">>)
    \o contextSchema(a.context, path \o <<"context">>)
    \o zEnum(<<"exec_bullets", "se_deal_update", "memo">>, a.output_format,
             path \o <<"output_format">>)
    \o optionalTrimmedString(a.doc_title, path \o <<"doc_title">>)
    \o unknownKeys(a.extra, path)

summarizeInputData(a) ==
    [deal_id |-> a.deal_id,
     deal_name |-> a.deal_name,
     source_canvas_name |-> a.source_canvas_name,
     context |-> contextData(a.context),
     output_format |-> a.output_format,
     doc_title |-> a.doc_title,
     extra |-> stripUnknown(a.extra)]

\* The value of parsed.data when safeParse fails: there is none
NoData == [t |-> "absent"]

\* summarizeInputSchema.safeParse(args)
safeParse(a) ==
    LET issues == summarizeInputSchema(a, <<>>)
    IN IF issues = <<>>
       THEN [success |-> TRUE, data |-> summarizeInputData(a), issues |-> <<>>]
       ELSE [success |-> FALSE, data |-> NoData, issues |-> issues]

formatZodError(issues) ==
    Join([k \in 1..Len(issues) |->
            LET issue == issues[k]
                path == IF Len(issue.path) > 0
                        THEN Join([i \in 1..Len(issue.path) |-> <<issue.path[i]>>],
                                  <<".">>)
                        ELSE <<"input">>
            IN <<"- ">> \o path \o <<": ">> \o issue.message],
         NL)


----------------------------------------------------------------------------
(* SpecValidate: summarizeInputSchema.safeParse on the arguments a caller  *)
(* composes.  The caller starts from the smallest valid arguments and sets *)
(* up to MaxEdits members; then safeParse runs.                            *)

MinimalContext ==
    [t |-> "obj", summary |-> Str(<<"a">>),
     key_points |-> AbsentList, open_questions |-> AbsentList,
     next_steps |-> AbsentList, risks |-> AbsentList,
     stakeholders |-> AbsentList, evidence |-> AbsentList,
     last_updated |-> Absent, extra |-> {}]

MinimalArgs ==
    [deal_id |-> Absent, deal_name |-> Absent, source_canvas_name |-> Absent,
     context |-> MinimalContext, output_format |-> Str(<<"exec_bullets">>),
     doc_title |-> Absent, extra |-> {}]

Blank == <<" ">>
Messy == <<" ", "a", "\n", "\t", "b", " ">>

StringValues == {Str(<<"a">>), Str(Blank), Str(<<>>), Str(Messy), Num, Null}

OutputFormatValues ==
    {Str(<<"se_deal_update">>), Str(<<"memo">>), Str(<<"EXEC_BULLETS">>),
     Str(<<"x", "\n", "y">>), Absent, Num}

GoodDate == <<"2", "0", "2", "5", "-", "0", "2", "-", "1", "4">>

DateValues ==
    {Str(GoodDate),
     Str(<<"0", "2", "/", "1", "4", "/", "2", "0", "2", "5">>),
     Str(<<"2", "0", "2", "5", "-", "2", "-", "1", "4">>),
     Str(GoodDate \o NL),
     Num}

NotAnObject(c) == [c EXCEPT !.t = "num"]

Question(q, owner, due, extra) ==
    [t |-> "obj", question |-> q, owner |-> owner, due |-> due, extra |-> extra]
NextStep(a, owner, due, status, extra) ==
    [t |-> "obj", action |-> a, owner |-> owner, due |-> due, status |-> status,
     extra |-> extra]
Risk(r, severity, mitigation, extra) ==
    [t |-> "obj", risk |-> r, severity |-> severity, mitigation |-> mitigation,
     extra |-> extra]
Stakeholder(n, role, influence, extra) ==
    [t |-> "obj", name |-> n, role |-> role, influence |-> influence, extra |-> extra]
Evidence(type, pointer, excerpt, extra) ==
    [t |-> "obj", type |-> type, pointer |-> pointer, excerpt |-> excerpt,
     extra |-> extra]

ItemValues(l) ==
    IF l = "key_points" THEN {Str(<<"k">>), Str(Blank), Str(<<>>), Num}
    ELSE IF l = "open_questions"
    THEN {Question(Str(<<"q">>), Absent, Absent, {}),
          Question(Str(<<"q">>), Str(<<"o">>), Str(Blank), {}),
          Question(Str(<<"q">>), Absent, Absent, {"foo"}),
          Question(Absent, Str(<<"o">>), Absent, {}),
          NotAnObject(Question(Absent, Absent, Absent, {}))}
    ELSE IF l = "next_steps"
    THEN {NextStep(Str(<<"s">>), Absent, Absent, Str(<<"open">>), {}),
          NextStep(Str(<<"s">>), Str(<<"o">>), Str(<<"d">>), Str(<<"done">>), {}),
          NextStep(Str(<<"s">>), Absent, Absent, Str(<<"open">>), {"foo"}),
          NextStep(Str(<<"s">>), Absent, Absent, Str(<<"Open">>), {}),
          NextStep(Str(<<"s">>), Absent, Absent, Absent, {})}
    ELSE IF l = "risks"
    THEN {Risk(Str(<<"r">>), Str(<<"high">>), Absent, {}),
          Risk(Str(Blank), Str(<<"low">>), Str(<<"m">>), {}),
          Risk(Str(<<"r">>), Str(<<"med">>), Absent, {"foo"}),
          Risk(Str(<<"r">>), Str(<<"critical">>), Absent, {}),
          Risk(Str(<<"r">>), Num, Str(<<>>), {})}
    ELSE IF l = "stakeholders"
    THEN {Stakeholder(Str(<<"n">>), Absent, Absent, {}),
          Stakeholder(Str(<<"n">>), Str(<<"r">>), Str(<<"i">>), {}),
          Stakeholder(Str(<<"n">>), Absent, Absent, {"foo"}),
          Stakeholder(Str(<<>>), Null, Absent, {})}
    ELSE {Evidence(Str(<<"canvas">>), Str(<<"p">>), Str(<<"e">>), {}),
          Evidence(Str(<<"conversation">>), Str(<<"p">>), Str(Blank), {}),
          Evidence(Str(<<"canvas">>), Str(<<"p">>), Str(<<"e">>), {"foo"}),
          Evidence(Str(<<"chat">>), Str(<<"p">>), Absent, {})}

NotParsed == [done |-> FALSE, success |-> FALSE, data |-> NoData, issues |-> <<>>]

CanEdit == ~parsed.done /\ edits < MaxEdits

Edited(a) ==
    /\ vargs' = a
    /\ edits' = edits + 1
    /\ UNCHANGED <<parsed, formatVars, routeVars, zod, lvalue>>

SetTopString ==
    /\ CanEdit
    /\ \E f \in {"deal_id", "deal_name", "source_canvas_name", "doc_title"} :
          \E v \in StringValues : Edited([vargs EXCEPT ![f] = v])

SetOutputFormat ==
    /\ CanEdit
    /\ \E v \in OutputFormatValues : Edited([vargs EXCEPT !.output_format = v])

SetContext ==
    /\ CanEdit
    /\ \E t \in {"absent", "num", "arr"} : Edited([vargs EXCEPT !.context.t = t])

SetSummary ==
    /\ CanEdit
    /\ \E v \in StringValues \cup {Absent} :
          Edited([vargs EXCEPT !.context.summary = v])

SetLastUpdated ==
    /\ CanEdit
    /\ \E v \in DateValues : Edited([vargs EXCEPT !.context.last_updated = v])

SetList ==
    /\ CanEdit
    /\ \E l \in Range(ListFields) : \E v \in {NullList, StrList, Arr(<<>>)} :
          Edited([vargs EXCEPT !.context[l] = v])

AppendItem ==
    /\ CanEdit
    /\ \E l \in Range(ListFields) : \E item \in ItemValues(l) :
          /\ vargs.context[l].t \in {"absent", "arr"}
          /\ Edited([vargs EXCEPT
                       !.context[l] = Arr(Append(vargs.context[l].items, item))])

AddUnknownKey ==
    /\ CanEdit
    /\ \/ Edited([vargs EXCEPT !.extra = {"foo"}])
       \/ Edited([vargs EXCEPT !.context.extra = {"foo"}])

Validate ==
    /\ ~parsed.done
    /\ parsed' = [done |-> TRUE] @@ safeParse(vargs)
    /\ UNCHANGED <<vargs, edits, formatVars, routeVars, zod, lvalue>>


----------------------------------------------------------------------------
(* src/lib/format.ts *)

MAX_ITEMS == 8

\* A JavaScript truthiness test of an optional string
Truthy(v) == v.t = "str" /\ v.s # <<>>

\* limitItems that keeps every item and still reports the overflow
limitItems_NoCap(items) ==
    [items |-> items,
     remaining |-> IF Len(items) <= MAX_ITEMS THEN 0 ELSE Len(items) - MAX_ITEMS]

limitItems(items) ==
    IF Len(items) <= MAX_ITEMS
    THEN [items |-> items, remaining |-> 0]
    ELSE [items |-> SubSeq(items, 1, MAX_ITEMS), remaining |-> Len(items) - MAX_ITEMS]

\* `- ... (+${limited.remaining} more)`
MoreLine(remaining) == <<"- ", "...", " ", "(+", ToString(remaining), " ", "more)">>

NoneLine == <<"- ", "None">>

\* lines.join("\n") after the optional overflow line is pushed
LimitedLines(lines, remaining) ==
    Join(IF remaining # 0 THEN Append(lines, MoreLine(remaining)) ELSE lines, NL)

\* ` (${meta.join("; ")})`, or "" when meta is empty
MetaText(meta) ==
    IF meta = <<>> THEN <<>> ELSE <<" ", "(">> \o Join(meta, <<";", " ">>) \o <<")">>

\* meta.push(`${label}: ${clean(v)}`) when v is set
MetaEntry(label, v) ==
    IF Truthy(v) THEN << <<label, " ">> \o clean(v.s) >> ELSE <<>>

formatList(items) ==
    IF Len(items) = 0 THEN NoneLine
    ELSE LET limited == limitItems(items)
             lines == [i \in 1..Len(limited.items) |->
                         <<"- ">> \o clean(limited.items[i].s)]
         IN LimitedLines(lines, limited.remaining)

formatQuestions(items) ==
    IF Len(items) = 0 THEN NoneLine
    ELSE LET limited == limitItems(items)
             lines == [i \in 1..Len(limited.items) |->
                         LET item == limited.items[i]
                             meta == MetaEntry("Owner:", item.owner)
                                     \o MetaEntry("Due:", item.due)
                         IN <<"- ">> \o clean(item.question.s) \o MetaText(meta)]
         IN LimitedLines(lines, limited.remaining)

formatNextSteps(items) ==
    IF Len(items) = 0 THEN NoneLine
    ELSE LET limited == limitItems(items)
             lines == [i \in 1..Len(limited.items) |->
                         LET item == limited.items[i]
                             meta == << <<"Status:", " ">> \o item.status.s >>
                                     \o MetaEntry("Owner:", item.owner)
                                     \o MetaEntry("Due:", item.due)
                         IN <<"- ">> \o clean(item.action.s) \o <<" ", "(">>
                            \o Join(meta, <<";", " ">>) \o <<")">>]
         IN LimitedLines(lines, limited.remaining)

\* String.prototype.toUpperCase on a severity
ToUpperCase(s) ==
    [i \in 1..Len(s) |->
        IF s[i] = "low" THEN "LOW"
        ELSE IF s[i] = "med" THEN "MED"
        ELSE IF s[i] = "high" THEN "HIGH"
        ELSE s[i]]

formatRisks(items) ==
    IF Len(items) = 0 THEN NoneLine
    ELSE LET limited == limitItems(items)
             lines == [i \in 1..Len(limited.items) |->
                         LET item == limited.items[i]
                             severity == ToUpperCase(item.severity.s)
                             mitigation ==
                                 IF Truthy(item.mitigation)
                                 THEN <<" ", "(Mitigation:", " ">>
                                      \o clean(item.mitigation.s) \o <<")">>
                                 ELSE <<>>
                         IN <<"- ", "[">> \o severity \o <<"]", " ">>
                            \o clean(item.risk.s) \o mitigation]
         IN LimitedLines(lines, limited.remaining)

formatStakeholders(items) ==
    IF Len(items) = 0 THEN NoneLine
    ELSE LET limited == limitItems(items)
             lines == [i \in 1..Len(limited.items) |->
                         LET item == limited.items[i]
                             meta == MetaEntry("Role:", item.role)
                                     \o MetaEntry("Influence:", item.influence)
                         IN <<"- ">> \o clean(item.name.s) \o MetaText(meta)]
         IN LimitedLines(lines, limited.remaining)

(* JSON.stringify(value, null, 2).  A member whose value is undefined is   *)
(* left out; zod builds the parsed object in the order of the schema's     *)
(* keys, and that is the order of the members.                             *)

Indent(depth) == [i \in 1..(2 * depth) |-> " "]

\* The text between quotes as it is, nothing escaped
jsonString_NoEscape(s) == <<"\"">> \o s \o <<"\"">>

\* A string literal: the quotes, with line breaks, tabs, quotes and
\* backslashes escaped
jsonString(s) ==
    <<"\"">>
    \o [i \in 1..Len(s) |->
          IF s[i] = "\n" THEN "\\n"
          ELSE IF s[i] = "\t" THEN "\\t"
          ELSE IF s[i] = "\"" THEN "\\\""
          ELSE IF s[i] = "\\" THEN "\\\\"
          ELSE s[i]]
    \o <<"\"">>

\* One member, `"key": value`, or none when the value is undefined
jsonMember(key, v) ==
    IF v.t = "absent" THEN <<>> ELSE << <<"\"", key, "\"", ":", " ">> \o jsonString(v.s) >>

\* An object whose members' texts are given, at the given depth
jsonObject(members, depth) ==
    IF members = <<>> THEN <<"{}">>
    ELSE <<"{">> \o NL
         \o Join([i \in 1..Len(members) |-> Indent(depth + 1) \o members[i]],
                 <<",">> \o NL)
         \o NL \o Indent(depth) \o <<"}">>

\* An array whose elements' texts are given, at the given depth
jsonArray(elements, depth) ==
    IF elements = <<>> THEN <<"[]">>
    ELSE <<"[">> \o NL
         \o Join([i \in 1..Len(elements) |-> Indent(depth + 1) \o elements[i]],
                 <<",">> \o NL)
         \o NL \o Indent(depth) \o <<"]">>

\* One member whose value is an array, given its elements' texts
jsonArrayMember(key, list, elements, depth) ==
    IF list.t = "absent" THEN <<>>
    ELSE << <<"\"", key, "\"", ":", " ">> \o jsonArray(elements, depth) >>

jsonKeyPoint(item, depth) == jsonString(item.s)

jsonQuestion(item, depth) ==
    jsonObject(jsonMember("question", item.question) \o jsonMember("owner", item.owner)
               \o jsonMember("due", item.due), depth)

jsonNextStep(item, depth) ==
    jsonObject(jsonMember("action", item.action) \o jsonMember("owner", item.owner)
               \o jsonMember("due", item.due) \o jsonMember("status", item.status),
               depth)

jsonRisk(item, depth) ==
    jsonObject(jsonMember("risk", item.risk) \o jsonMember("severity", item.severity)
               \o jsonMember("mitigation", item.mitigation), depth)

jsonStakeholder(item, depth) ==
    jsonObject(jsonMember("name", item.name) \o jsonMember("role", item.role)
               \o jsonMember("influence", item.influence), depth)

jsonEvidence(item, depth) ==
    jsonObject(jsonMember("type", item.type) \o jsonMember("pointer", item.pointer)
               \o jsonMember("excerpt", item.excerpt), depth)

jsonContext(c, depth) ==
    jsonObject(jsonMember("summary", c.summary)
               \o jsonArrayMember("key_points", c.key_points,
                     [i \in 1..Len(c.key_points.items) |-> jsonKeyPoint(c.key_points.items[i], depth + 2)],
                     depth + 1)
               \o jsonArrayMember("open_questions", c.open_questions,
                     [i \in 1..Len(c.open_questions.items) |-> jsonQuestion(c.open_questions.items[i], depth + 2)],
                     depth + 1)
               \o jsonArrayMember("next_steps", c.next_steps,
                     [i \in 1..Len(c.next_steps.items) |-> jsonNextStep(c.next_steps.items[i], depth + 2)],
                     depth + 1)
               \o jsonArrayMember("risks", c.risks,
                     [i \in 1..Len(c.risks.items) |-> jsonRisk(c.risks.items[i], depth + 2)],
                     depth + 1)
               \o jsonArrayMember("stakeholders", c.stakeholders,
                     [i \in 1..Len(c.stakeholders.items) |-> jsonStakeholder(c.stakeholders.items[i], depth + 2)],
                     depth + 1)
               \o jsonArrayMember("evidence", c.evidence,
                     [i \in 1..Len(c.evidence.items) |-> jsonEvidence(c.evidence.items[i], depth + 2)],
                     depth + 1)
               \o jsonMember("last_updated", c.last_updated),
               depth)

\* JSON.stringify(input, null, 2)
stringifyInput(input) ==
    jsonObject(jsonMember("deal_id", input.deal_id)
               \o jsonMember("deal_name", input.deal_name)
               \o jsonMember("source_canvas_name", input.source_canvas_name)
               \o << <<"\"", "context", "\"", ":", " ">> \o jsonContext(input.context, 1) >>
               \o jsonMember("output_format", input.output_format)
               \o jsonMember("doc_title", input.doc_title),
               0)

\* The three backquotes of a Markdown fence (a TLA+ string holds no backquote)
Fence == "'''"

\* a ?? b on optional strings
Coalesce(a, b) == IF a.t \in {"absent", "null"} THEN b ELSE a

formatSummary(input) ==
    LET context == input.context
        dealLabel == Coalesce(input.deal_name,
                              Coalesce(input.deal_id, Str(<<"Unspecified">>)))
        lines ==
            << <<"## Deal Summary">>,
               <<"- Deal: ">> \o clean(dealLabel.s),
               <<"- Summary: ">> \o clean(context.summary.s) >>
            \o (IF Truthy(input.deal_name) /\ Truthy(input.deal_id)
                THEN << <<"- Deal ID: ">> \o clean(input.deal_id.s) >> ELSE <<>>)
            \o (IF Truthy(input.source_canvas_name)
                THEN << <<"- Source Canvas: ">> \o clean(input.source_canvas_name.s) >>
                ELSE <<>>)
            \o (IF Truthy(context.last_updated)
                THEN << <<"- Last Updated: ">> \o clean(context.last_updated.s) >>
                ELSE <<>>)
            \o << <<>>, <<"## Key Points">>, formatList(context.key_points.items),
                  <<>>, <<"## Risks">>, formatRisks(context.risks.items),
                  <<>>, <<"## Open Questions">>,
                  formatQuestions(context.open_questions.items),
                  <<>>, <<"## Next Steps">>, formatNextSteps(context.next_steps.items),
                  <<>>, <<"## Stakeholders">>,
                  formatStakeholders(context.stakeholders.items) >>
            \o (IF input.output_format.s # <<"exec_bullets">>
                THEN << <<>>, <<"### Structured Payload (for ETL)">>, <<Fence, "json">>,
                        stringifyInput(input), <<Fence>> >>
                ELSE <<>>)
    IN Join(lines, NL)


----------------------------------------------------------------------------
(* SpecFormat: formatSummary on a validated request.  One section holds 0  *)
(* to MaxItems items, numbered so that their order shows in the text; the  *)
(* other sections hold none or one.                                        *)

FormatSections == <<"key_points", "risks", "open_questions", "next_steps",
                    "stakeholders">>

\* The text of item i: its number, plain or wrapped in stray whitespace
ItemText(i, style) ==
    IF style = "plain" THEN <<"item", ToString(i)>>
    ELSE <<" ", "item", ToString(i), "\n", "\t", "x", " ">>

\* An optional member: left out, or a text with a line break, a quote and a
\* backslash in it
Optional(i, style) ==
    IF style = "plain" THEN Absent ELSE Str(<<"o", "\n", "\"", "\\", "p">>)

FormatItem(l, i, style) ==
    IF l = "key_points" THEN Str(ItemText(i, style))
    ELSE IF l = "open_questions"
    THEN Question(Str(ItemText(i, style)), Optional(i, style), Optional(i, style), {})
    ELSE IF l = "next_steps"
    THEN NextStep(Str(ItemText(i, style)), Optional(i, style), Optional(i, style),
                  Str(<<IF i % 2 = 0 THEN "open" ELSE "done">>), {})
    ELSE IF l = "risks"
    THEN Risk(Str(ItemText(i, style)),
              Str(<<IF i % 3 = 0 THEN "low" ELSE IF i % 3 = 1 THEN "med" ELSE "high">>),
              Optional(i, style), {})
    ELSE IF l = "stakeholders"
    THEN Stakeholder(Str(ItemText(i, style)), Optional(i, style), Optional(i, style), {})
    ELSE Evidence(Str(<<"canvas">>), Str(ItemText(i, style)), Str(ItemText(i, style)), {})

FormatListOf(l, n, style) ==
    IF n = 0 THEN AbsentList ELSE Arr([i \in 1..n |-> FormatItem(l, i, style)])

FormatArgs(sec, n, style, others, fmt, id, name) ==
    LET list(l) == IF l = sec THEN FormatListOf(l, n, style)
                   ELSE FormatListOf(l, others, "plain")
    IN [MinimalArgs EXCEPT
          !.deal_id = id,
          !.deal_name = name,
          !.output_format = Str(<<fmt>>),
          !.context = [MinimalContext EXCEPT
                         !.summary = Str(<<"Renewal", " ", "in", "\n", "negotiation">>),
                         !.key_points = list("key_points"),
                         !.open_questions = list("open_questions"),
                         !.next_steps = list("next_steps"),
                         !.risks = list("risks"),
                         !.stakeholders = list("stakeholders"),
                         !.evidence = list("evidence")]]

FormatArgsSet ==
    {FormatArgs(sec, n, style, others, fmt, id, name) :
        sec \in Range(FormatSections), n \in 0..MaxItems, style \in {"plain", "messy"},
        others \in {0, 1}, fmt \in {"exec_bullets", "se_deal_update", "memo"},
        id \in {Absent, Str(<<"D-123">>)}, name \in {Absent, Str(<<"Acme">>)}}

\* The requests formatSummary is called with: what safeParse returned
FormatInputs == {safeParse(a).data : a \in {b \in FormatArgsSet : safeParse(b).success}}

NotFormatted == [done |-> FALSE, text |-> <<>>]

Format ==
    /\ ~ftext.done
    /\ ftext' = [done |-> TRUE, text |-> formatSummary(finput)]
    /\ UNCHANGED <<finput, validateVars, routeVars, zod, lvalue>>


----------------------------------------------------------------------------
(* src/README.md, lines 77-120: the logger (lib/logger.ts).  The length of *)
(* a string is its number of tokens: a string whose length matters is      *)
(* given one character per token.                                          *)

MAX_STRING_LENGTH == 120

normalizeString(value) == Trim(CollapseWs(value))

truncate(value) ==
    LET normalized == normalizeString(value)
    IN IF Len(normalized) <= MAX_STRING_LENGTH THEN normalized
       ELSE SubSeq(normalized, 1, MAX_STRING_LENGTH) \o <<".", ".", ".">>

\* The decimal digits of n, one character each
RECURSIVE DigitChars(_)
DigitChars(n) == IF n < 10 THEN <<ToString(n)>>
                 ELSE DigitChars(n \div 10) \o <<ToString(n % 10)>>

\* A metadata value is [t, s]: s holds a string's text or an array's
\* elements.  A string is truncated, an array and an object are replaced by
\* a short description, anything else is logged as it is
safeValue(value) ==
    IF value.t = "str" THEN Str(truncate(value.s))
    ELSE IF value.t = "arr"
    THEN Str(<<"a", "r", "r", "a", "y", "(", "l", "e", "n", "=">>
             \o DigitChars(Len(value.s)) \o <<")">>)
    ELSE IF value.t = "obj" THEN Str(<<"[", "o", "b", "j", "e", "c", "t", "]">>)
    ELSE value

\* The entry log() prints; meta is a sequence of [key, value]
log(level, message, meta) ==
    [level |-> level, message |-> message,
     meta |-> [i \in 1..Len(meta) |->
                 [key |-> meta[i].key, value |-> safeValue(meta[i].value)]]]

Meta(key, value) == [key |-> key, value |-> value]
NumValue(n) == [t |-> "num", s |-> <<ToString(n)>>]
BoolValue(b) == [t |-> "bool", s |-> <<IF b THEN "true" ELSE "false">>]

----------------------------------------------------------------------------
(* src/unnamed/part_001: the route (app/mcp/route.ts) *)

\* A JSON-RPC id as received: t its JSON type, v its text
AbsentId == [t |-> "absent", v |-> ""]
NullId == [t |-> "null", v |-> ""]

\* coerceJsonRpcId that hands back whatever it was given
coerceJsonRpcId_Raw(value) == value

coerceJsonRpcId(value) == IF value.t \in {"str", "num"} THEN value ELSE NullId

\* String(id) of a coerced id
StringOfId(id) == IF id.t = "null" THEN <<"null">> ELSE <<id.v>>

\* getDocWebhookConfig that asks for the URL only
getDocWebhookConfig_UrlOnly(e) ==
    IF ~Truthy(e.DOC_WEBHOOK_URL)
    THEN [configured |-> FALSE, url |-> <<>>, token |-> <<>>]
    ELSE [configured |-> TRUE, url |-> e.DOC_WEBHOOK_URL.s, token |-> e.DOC_WEBHOOK_TOKEN.s]

getDocWebhookConfig(e) ==
    IF ~Truthy(e.DOC_WEBHOOK_URL) \/ ~Truthy(e.DOC_WEBHOOK_TOKEN)
    THEN [configured |-> FALSE, url |-> <<>>, token |-> <<>>]
    ELSE [configured |-> TRUE, url |-> e.DOC_WEBHOOK_URL.s, token |-> e.DOC_WEBHOOK_TOKEN.s]

isBaseUrlConfigured(e) == Truthy(e.APP_BASE_URL)

SERVER_VERSION == <<"0.1.0">>
PROTOCOL_VERSION == <<"2024-11-05">>

\* body.slice(0, 300) of the webhook's error body
BodyLimit == 300

\* The outcome of pushSummaryToDocWebhook
PushOk == [ok |-> TRUE, error |-> <<>>]
PushFailed(error) == [ok |-> FALSE, error |-> error]

NotConfigured ==
    PushFailed(<<"DOC_WEBHOOK_URL / DOC_WEBHOOK_TOKEN not configured.">>)

(* What fetch does: it resolves with a response (status, and a body that   *)
(* res.text() reads or fails to read) or rejects with a transport error.   *)
FetchOutcomes ==
    {[kind |-> "response", status |-> st, readable |-> TRUE, text |-> <<>>] :
        st \in {200, 204, 302, 399}}
    \cup {[kind |-> "response", status |-> st, readable |-> r, text |-> <<"e", "r", "r">>] :
            st \in {400, 500}, r \in BOOLEAN}
    \cup {[kind |-> "reject", status |-> 0, readable |-> FALSE,
           text |-> <<"TypeError: fetch failed">>]}

\* The success test with the redirects left out
statusOk_NoRedirect(status) == status >= 200 /\ status < 300

\* res.status >= 200 && res.status < 400
statusOk(status) == status >= 200 /\ status < 400

\* pushSummaryToDocWebhook once fetch has settled: lines 55-64
pushSettled(outcome) ==
    IF outcome.kind = "reject" THEN PushFailed(outcome.text)
    ELSE IF ~statusOk(outcome.status)
    THEN LET text == IF outcome.readable THEN outcome.text ELSE <<>>
         IN PushFailed(<<"Webhook HTTP ", ToString(outcome.status), ": ">>
                       \o SubSeq(text, 1, IF Len(text) < BodyLimit THEN Len(text)
                                          ELSE BodyLimit))
    ELSE PushOk

\* A tool result, or none
NoResult == [shape |-> "none", text |-> <<>>, isError |-> FALSE]
ToolResult(text, isError) == [shape |-> "tool", text |-> text, isError |-> isError]

makeError(id, code, message, data) ==
    [kind |-> "error", id |-> id, code |-> code, message |-> message, data |-> data,
     result |-> NoResult]

makeResult(id, result) ==
    [kind |-> "result", id |-> id, code |-> 0, message |-> "", data |-> <<>>,
     result |-> result]

\* handleMessage returning null
NullResponse ==
    [kind |-> "null", id |-> NullId, code |-> 0, message |-> "", data |-> <<>>,
     result |-> NoResult]

isObject(value) == value.t = "obj"

\* JSON.stringify(getHealthPayload(), null, 2)
healthText(now) ==
    jsonObject(<< <<"\"", "version", "\"", ":", " ">> \o jsonString(SERVER_VERSION),
                  <<"\"", "uptime", "\"", ":", " ", ToString(now.uptime)>>,
                  <<"\"", "server_time", "\"", ":", " ">> \o jsonString(now.server_time) >>,
               0)

\* params.arguments when it is an object, {} otherwise
EmptyArgs ==
    [deal_id |-> Absent, deal_name |-> Absent, source_canvas_name |-> Absent,
     context |-> [MinimalContext EXCEPT !.t = "absent", !.summary = Absent],
     output_format |-> Absent, doc_title |-> Absent, extra |-> {}]

getContextStats(data) ==
    [i \in 1..Len(ListFields) |->
        Meta(ListFields[i], NumValue(IF data.context[ListFields[i]].t = "arr"
                                     THEN Len(data.context[ListFields[i]].items)
                                     ELSE 0))]


(* handleMessage returns a response (or null) after logging; its one       *)
(* suspension is the fetch of pushSummaryToDocWebhook.  Handled is a call  *)
(* that returned; Pending is one that has issued the POST and awaits it.   *)

Handled(response, entries) ==
    [pending |-> FALSE, response |-> response, logs |-> entries,
     id |-> NullId, requestId |-> <<>>, data |-> NoData, title |-> <<>>,
     text |-> <<>>, url |-> <<>>]

Pending(id, requestId, data, title, text, url) ==
    [pending |-> TRUE, response |-> NullResponse, logs |-> <<>>,
     id |-> id, requestId |-> requestId, data |-> data, title |-> title,
     text |-> text, url |-> url]

\* handleMessage after pushSummaryToDocWebhook returned: lines 337-356
summarizeDone(id, requestId, data, title, pushResult) ==
    Handled(
        makeResult(id,
            ToolResult(IF pushResult.ok
                       THEN <<"Doc push: ok">> \o NL \o <<"Title: ">> \o title
                       ELSE <<"Doc push: failed">> \o NL \o pushResult.error,
                       ~pushResult.ok)),
        << IF pushResult.ok
           THEN log("info", "mcp.doc_push.ok", <<Meta("request_id", Str(requestId))>>)
           ELSE log("error", "mcp.doc_push.failed",
                    <<Meta("request_id", Str(requestId)),
                      Meta("error", Str(pushResult.error))>>),
           log("info", "mcp.tools.call.summarize_context",
               <<Meta("request_id", Str(requestId)),
                 Meta("tool", Str(<<"summarize_context">>)),
                 Meta("output_format", data.output_format)>>
               \o getContextStats(data)) >>)

\* The summarize_context branch up to the fetch: lines 315-336 and 34-53
summarizeContext(id, requestId, args, e) ==
    LET result == safeParse(args)
    IN IF ~result.success
       THEN Handled(
                makeResult(id,
                    ToolResult(<<"Validation error:">> \o NL
                               \o formatZodError(result.issues), TRUE)),
                <<log("warn", "mcp.tools.call.validation_error",
                      <<Meta("request_id", Str(requestId)),
                        Meta("tool", Str(<<"summarize_context">>))>>)>>)
       ELSE LET summaryText == formatSummary(result.data)
                title == Coalesce(result.data.doc_title,
                           Coalesce(result.data.deal_name,
                             Coalesce(result.data.deal_id,
                                      Str(<<"CanvasETL Summary">>)))).s
                cfg == getDocWebhookConfig(e)
            IN IF ~cfg.configured
               THEN summarizeDone(id, requestId, result.data, title, NotConfigured)
               ELSE Pending(id, requestId, result.data, title, summaryText, cfg.url)

\* The tools/call branch: lines 293-364
toolsCall(message, id, requestId, e, now) ==
    LET name == IF isObject(message.params) /\ message.params.name.t = "str"
                THEN message.params.name.s ELSE <<>>
        args == IF isObject(message.params) /\ isObject(message.params.arguments)
                THEN message.params.arguments.value ELSE EmptyArgs
    IN IF name = <<>>
       THEN Handled(
                makeResult(id, ToolResult(<<"Validation error: tool name is required.">>,
                                          TRUE)),
                <<log("warn", "mcp.tools.call.invalid",
                      <<Meta("request_id", Str(requestId))>>)>>)
       ELSE IF name = <<"healthcheck">>
       THEN Handled(
                makeResult(id, ToolResult(healthText(now), FALSE)),
                <<log("info", "mcp.tools.call.healthcheck",
                      <<Meta("request_id", Str(requestId))>>)>>)
       ELSE IF name = <<"summarize_context">>
       THEN summarizeContext(id, requestId, args, e)
       ELSE Handled(
                makeResult(id, ToolResult(<<"Unknown tool: ">> \o name, TRUE)),
                <<log("warn", "mcp.tools.call.unknown_tool",
                      <<Meta("request_id", Str(requestId)), Meta("tool", Str(name))>>)>>)

\* The method switch: lines 270-369
dispatch(message, method, id, requestId, e, now) ==
    IF method = <<"initialize">>
    THEN Handled(
             makeResult(id, [shape |-> "initialize", text |-> PROTOCOL_VERSION,
                             isError |-> FALSE]),
             <<log("info", "mcp.initialize",
                   <<Meta("request_id", Str(requestId)),
                     Meta("base_url_configured", BoolValue(isBaseUrlConfigured(e)))>>)>>)
    ELSE IF method = <<"tools/list">>
    THEN Handled(
             makeResult(id, [shape |-> "tools", text |-> <<"healthcheck",
                                                             "summarize_context">>,
                             isError |-> FALSE]),
             <<log("info", "mcp.tools.list",
                   <<Meta("request_id", Str(requestId)), Meta("tool_count", NumValue(2))>>)>>)
    ELSE IF method = <<"tools/call">>
    THEN toolsCall(message, id, requestId, e, now)
    ELSE Handled(
             makeError(id, -32601, "Method not found", method),
             <<log("warn", "mcp.method.not_found",
                   <<Meta("request_id", Str(requestId)), Meta("method", Str(method))>>)>>)

\* An own-property test that takes "id": null for no id
hasOwnId_NotNull(message) == message.id.t \notin {"absent", "null"}

\* Object.prototype.hasOwnProperty.call(message, "id")
hasOwnId(message) == message.id.t # "absent"

\* handleMessage up to its return or its fetch: lines 241-370
handleMessage(message, e, now) ==
    IF ~isObject(message)
    THEN Handled(makeError(NullId, -32600, "Invalid Request", <<"Expected JSON object.">>),
                 <<>>)
    ELSE LET hasId == hasOwnId(message)
             id == IF hasId THEN coerceJsonRpcId(message.id) ELSE NullId
             requestId == IF hasId THEN StringOfId(id) ELSE <<"notification">>
             method == IF message.method.t = "str" THEN message.method.s ELSE <<>>
         IN IF message.jsonrpc # Str(<<"2.0">>)
            THEN Handled(makeError(id, -32600, "Invalid Request",
                                   <<"Missing jsonrpc: '2.0'.">>), <<>>)
            ELSE IF method = <<>>
            THEN Handled(makeError(id, -32600, "Invalid Request", <<"Missing method.">>),
                         <<>>)
            ELSE IF method = <<"initialized">> \/ method = <<"notifications/initialized">>
            THEN Handled(IF hasId
                         THEN makeResult(id, [shape |-> "empty", text |-> <<>>,
                                              isError |-> FALSE])
                         ELSE NullResponse,
                         <<log("info", "mcp.initialized",
                               <<Meta("request_id", Str(requestId))>>)>>)
            ELSE IF ~hasId /\ method # <<"notifications/initialized">>
                    /\ method # <<"initialized">>
            THEN Handled(NullResponse,
                         <<log("warn", "mcp.notification.ignored",
                               <<Meta("request_id", Str(requestId)),
                                 Meta("method", Str(method))>>)>>)
            ELSE dispatch(message, method, id, requestId, e, now)


----------------------------------------------------------------------------
(* Spec: one POST /mcp.  The body is drawn at the start: unparseable, one  *)
(* message, or a batch of up to MaxBatch messages.                         *)

NoArguments == [t |-> "absent", value |-> EmptyArgs]
Arguments(a) == [t |-> "obj", value |-> a]
NoParams == [t |-> "absent", name |-> Absent, arguments |-> NoArguments]
Call(name, arguments) == [t |-> "obj", name |-> name, arguments |-> arguments]

Msg(id, jsonrpc, method, params) ==
    [t |-> "obj", id |-> id, jsonrpc |-> jsonrpc, method |-> method, params |-> params]

\* A batch element that is no object: a number, a string, null, an array
NonObject(t) ==
    [t |-> t, id |-> AbsentId, jsonrpc |-> Absent, method |-> Absent, params |-> NoParams]

NumId == [t |-> "num", v |-> "1"]
StrId == [t |-> "str", v |-> "abc"]
BoolId == [t |-> "bool", v |-> "true"]

Ids == {AbsentId, NumId, StrId, NullId, BoolId}

V2 == Str(<<"2.0">>)
Versions == {V2, Str(<<"1.0">>), Absent, Num}

ToolsCall == Str(<<"tools/call">>)

Methods ==
    {Str(<<"initialize">>), Str(<<"initialized">>), Str(<<"notifications/initialized">>),
     Str(<<"tools/list">>), ToolsCall, Str(<<"resources/list">>), Str(<<>>), Num, Absent}

FullArgs ==
    [MinimalArgs EXCEPT
       !.deal_id = Str(<<"D-123">>),
       !.doc_title = Str(<<"Acme", " ", "Expansion">>),
       !.output_format = Str(<<"memo">>),
       !.context.key_points = Arr(<<Str(<<"Security", "\n", "review">>), Str(<<"k">>)>>),
       !.context.risks = Arr(<<Risk(Str(<<"Budget">>), Str(<<"high">>), Absent, {})>>),
       !.context.last_updated = Str(GoodDate)]

ArgsSamples ==
    {MinimalArgs,
     FullArgs,
     [MinimalArgs EXCEPT !.deal_name = Str(<<"Acme">>), !.extra = {"foo"}],
     [MinimalArgs EXCEPT !.context.summary = Str(Blank)],
     [MinimalArgs EXCEPT !.output_format = Str(<<"x", "\n", "y">>)],
     [MinimalArgs EXCEPT !.context.summary = Str(<<>>),
                         !.context.key_points = Arr(<<Str(<<"k">>), Num>>),
                         !.output_format = Absent]}

Summarize == Str(<<"summarize_context">>)
Healthcheck == Str(<<"healthcheck">>)

CallParams ==
    {NoParams,
     Call(Absent, NoArguments), Call(Num, NoArguments), Call(Str(<<>>), NoArguments),
     Call(Healthcheck, NoArguments),
     Call(Healthcheck, Arguments([EmptyArgs EXCEPT !.extra = {"foo"}])),
     Call(Str(<<"delete_everything">>), Arguments(MinimalArgs)),
     Call(Summarize, NoArguments)}
    \cup {Call(Summarize, Arguments(a)) : a \in ArgsSamples}

SingleMessages ==
    {NonObject(t) : t \in {"num", "str", "null"}}
    \cup {Msg(id, jsonrpc, method, params) :
            id \in Ids, jsonrpc \in Versions, method \in Methods \ {ToolsCall},
            params \in {NoParams}}
    \cup {Msg(id, jsonrpc, ToolsCall, params) :
            id \in Ids, jsonrpc \in Versions, params \in CallParams}

BatchMessages ==
    {Msg(AbsentId, V2, Str(<<"notifications/initialized">>), NoParams),
     Msg(AbsentId, V2, Str(<<"resources/list">>), NoParams),
     Msg(AbsentId, V2, ToolsCall, Call(Summarize, Arguments(MinimalArgs))),
     Msg(NumId, V2, Str(<<"tools/list">>), NoParams),
     Msg(StrId, V2, Str(<<"initialize">>), NoParams),
     Msg(NullId, V2, Str(<<"resources/list">>), NoParams),
     Msg(NumId, Str(<<"1.0">>), Str(<<"tools/list">>), NoParams),
     NonObject("arr"),
     Msg(NumId, V2, ToolsCall, Call(Summarize, Arguments(FullArgs))),
     Msg(StrId, V2, ToolsCall, Call(Summarize, NoArguments)),
     Msg(NumId, V2, ToolsCall, Call(Healthcheck, NoArguments))}

RECURSIVE Batches(_)
Batches(n) ==
    IF n = 0 THEN {<<>>}
    ELSE LET shorter == Batches(n - 1)
         IN shorter \cup {Append(b, m) : b \in shorter, m \in BatchMessages}

Bodies ==
    {[kind |-> "invalid", msgs |-> <<>>]}
    \cup {[kind |-> "single", msgs |-> <<m>>] : m \in SingleMessages}
    \cup {[kind |-> "batch", msgs |-> b] : b \in Batches(MaxBatch)}

Hook == Str(<<"https://script.example/exec">>)
Secret == Str(<<"s3cret">>)

Envs ==
    {[DOC_WEBHOOK_URL |-> u, DOC_WEBHOOK_TOKEN |-> t, APP_BASE_URL |-> b] :
        u \in {Hook, Absent}, t \in {Secret, Absent}, b \in {Absent}}
    \cup {[DOC_WEBHOOK_URL |-> Str(<<>>), DOC_WEBHOOK_TOKEN |-> Secret,
           APP_BASE_URL |-> Str(<<"https://app.example">>)],
          [DOC_WEBHOOK_URL |-> Hook, DOC_WEBHOOK_TOKEN |-> Str(<<>>),
           APP_BASE_URL |-> Str(<<"https://app.example">>)]}

\* What process.uptime() and new Date() may give
Clocks == {[uptime |-> 0, server_time |-> <<"2025-02-14T00:00:00.000Z">>],
           [uptime |-> 5, server_time |-> <<"2025-02-14T00:00:05.000Z">>]}

NoCall == Handled(NullResponse, <<>>)
NoReply == [status |-> 0, kind |-> "none", body |-> <<>>]

\* The loop body of POST that keeps the null responses too
pushResponse_KeepNull(rs, response) == Append(rs, response)

\* if (response) responses.push(response)
pushResponse(rs, response) ==
    IF response.kind # "null" THEN Append(rs, response) ELSE rs

\* The reply of POST once every message is handled: lines 391-403
httpReply(kind, rs) ==
    IF rs = <<>> THEN [status |-> 204, kind |-> "none", body |-> <<>>]
    ELSE IF kind = "batch" THEN [status |-> 200, kind |-> "array", body |-> rs]
    ELSE [status |-> 200, kind |-> "object", body |-> rs]

NoOutcome == [kind |-> "none", status |-> 0, readable |-> FALSE, text |-> <<>>]

\* start, post, settled (fetch settled with outcome) and end (with the response)
Event(ev, i, response, outcome) ==
    [ev |-> ev, i |-> i, response |-> response, outcome |-> outcome]

\* req.json() and what follows it: lines 373-383
ParseBody ==
    /\ pc = "parse"
    /\ IF body.kind = "invalid"
       THEN /\ logs' = Append(logs, log("error", "mcp.parse_error",
                                        <<Meta("error", Str(<<"SyntaxError">>))>>))
            /\ reply' = [status |-> 400, kind |-> "object",
                         body |-> <<makeError(NullId, -32700, "Parse error", <<>>)>>]
            /\ pc' = "done"
       ELSE /\ pc' = "handle"
            /\ UNCHANGED <<logs, reply>>
    /\ UNCHANGED <<env, body, idx, cur, responses, posts, events,
                   validateVars, formatVars, zod, lvalue>>

\* A handleMessage call has returned: POST takes its response
Returned(h, started) ==
    /\ logs' = logs \o h.logs
    /\ events' = events \o started \o <<Event("end", idx, h.response, NoOutcome)>>
    /\ cur' = NoCall
    /\ responses' = pushResponse(responses, h.response)
    /\ idx' = idx + 1
    /\ pc' = "handle"
    /\ UNCHANGED reply

\* await handleMessage(message), up to its return or to its fetch
HandleMessage ==
    /\ pc = "handle"
    /\ idx <= Len(body.msgs)
    /\ \E now \in Clocks :
          LET h == handleMessage(body.msgs[idx], env, now)
          IN IF h.pending
             THEN /\ cur' = h
                  /\ posts' = Append(posts, [i |-> idx, url |-> h.url,
                                             title |-> h.title, text |-> h.text])
                  /\ events' = events \o <<Event("start", idx, NullResponse, NoOutcome),
                                           Event("post", idx, NullResponse, NoOutcome)>>
                  /\ pc' = "fetch"
                  /\ UNCHANGED <<logs, responses, idx, reply>>
             ELSE /\ Returned(h, <<Event("start", idx, NullResponse, NoOutcome)>>)
                  /\ UNCHANGED posts
    /\ UNCHANGED <<env, body, validateVars, formatVars, zod, lvalue>>

\* fetch settles; handleMessage runs to its return
FetchSettles ==
    /\ pc = "fetch"
    /\ \E outcome \in FetchOutcomes :
          Returned(summarizeDone(cur.id, cur.requestId, cur.data, cur.title,
                                 pushSettled(outcome)),
                   <<Event("settled", idx, NullResponse, outcome)>>)
    /\ UNCHANGED <<env, body, posts, validateVars, formatVars, zod, lvalue>>

\* Every message is handled: POST replies
Respond ==
    /\ pc = "handle"
    /\ idx > Len(body.msgs)
    /\ reply' = httpReply(body.kind, responses)
    /\ pc' = "done"
    /\ UNCHANGED <<env, body, idx, cur, responses, posts, logs, events,
                   validateVars, formatVars, zod, lvalue>>

----------------------------------------------------------------------------
(* The specifications *)

IdleValidate == vargs = MinimalArgs /\ parsed = NotParsed /\ edits = 0
IdleFormat == finput = NoData /\ ftext = NotFormatted
IdleLog == lvalue = Absent
IdleRoute ==
    /\ env = [DOC_WEBHOOK_URL |-> Absent, DOC_WEBHOOK_TOKEN |-> Absent,
              APP_BASE_URL |-> Absent]
    /\ body = [kind |-> "invalid", msgs |-> <<>>]
    /\ pc = "idle"
    /\ idx = 1
    /\ cur = NoCall
    /\ responses = <<>>
    /\ reply = NoReply
    /\ posts = <<>>
    /\ logs = <<>>
    /\ events = <<>>

Init ==
    /\ zod \in ZodVersions
    /\ env \in Envs
    /\ body \in Bodies
    /\ pc = "parse"
    /\ idx = 1
    /\ cur = NoCall
    /\ responses = <<>>
    /\ reply = NoReply
    /\ posts = <<>>
    /\ logs = <<>>
    /\ events = <<>>
    /\ IdleValidate
    /\ IdleFormat
    /\ IdleLog

Next == ParseBody \/ HandleMessage \/ FetchSettles \/ Respond

Spec == Init /\ [][Next]_vars

InitValidate ==
    zod \in ZodVersions /\ IdleValidate /\ IdleFormat /\ IdleRoute /\ IdleLog

NextValidate ==
    \/ SetTopString
    \/ SetOutputFormat
    \/ SetContext
    \/ SetSummary
    \/ SetLastUpdated
    \/ SetList
    \/ AppendItem
    \/ AddUnknownKey
    \/ Validate

SpecValidate == InitValidate /\ [][NextValidate]_vars

InitFormat ==
    /\ zod \in ZodVersions
    /\ finput \in FormatInputs
    /\ ftext = NotFormatted
    /\ IdleValidate
    /\ IdleRoute
    /\ IdleLog

NextFormat == Format

SpecFormat == InitFormat /\ [][NextFormat]_vars

(* SpecLog: one call of log() with one metadata value.  A string is given  *)
(* one character per element, so that Len is its length: some whitespace,  *)
(* a run of up to MaxRun letters, a gap, a few more letters, a trailer.    *)

Letters(n, c) == [i \in 1..n |-> c]

LogStrings ==
    {lead \o Letters(n, "a") \o gap \o Letters(m, "b") \o trail :
        lead \in {<<>>, <<" ">>, <<"\n", " ">>},
        n \in 0..MaxRun,
        gap \in {<<>>, <<" ">>, <<" ", "\t">>},
        m \in {0, 1, 5},
        trail \in {<<>>, <<" ">>}}

\* The values log() is given: strings, arrays, an object, a number, a
\* boolean, null
LogValues ==
    {Str(s) : s \in LogStrings}
    \cup {[t |-> "arr", s |-> Letters(n, "x")] : n \in {0, 3, 12}}
    \cup {[t |-> "obj", s |-> <<>>], [t |-> "num", s |-> <<"4", "2">>],
          [t |-> "bool", s |-> <<"t", "r", "u", "e">>], Null}

\* log("info", message, { value })
Log ==
    /\ logs = <<>>
    /\ logs' = <<log("info", "event", <<Meta("value", lvalue)>>)>>
    /\ UNCHANGED <<env, body, pc, idx, cur, responses, reply, posts, events,
                   validateVars, formatVars, zod, lvalue>>

InitLog ==
    /\ lvalue \in LogValues
    /\ zod \in ZodVersions
    /\ IdleValidate
    /\ IdleFormat
    /\ IdleRoute

NextLog == Log

SpecLog == InitLog /\ [][NextLog]_vars


----------------------------------------------------------------------------
(* Properties of the validator (SpecValidate) *)

ObjectLists == {"open_questions", "next_steps", "risks", "stakeholders", "evidence"}

\* Some object of the arguments carries a key its schema does not declare
HasUnknownKey(a) ==
    \/ a.extra # {}
    \/ /\ a.context.t = "obj"
       /\ \/ a.context.extra # {}
          \/ \E l \in ObjectLists :
                /\ a.context[l].t = "arr"
                /\ \E i \in 1..Len(a.context[l].items) :
                      /\ a.context[l].items[i].t = "obj"
                      /\ a.context[l].items[i].extra # {}

\* C1: safeParse fails, and yields no normalized request, whenever the
\* top-level object, the context or a list item carries an undeclared property.
C1_UnknownPropertyRejected ==
    (parsed.done /\ HasUnknownKey(vargs)) =>
        (~parsed.success /\ parsed.data = NoData)

\* C1, the case: arguments with an undeclared property were validated
C1_Witness == parsed.done /\ HasUnknownKey(vargs)

IsBlank(v) == v.t = "str" /\ Trim(v.s) = <<>>

\* The string members of an item that the schema reads as trimmedString
ItemStrings(l, item) ==
    IF l = "open_questions" THEN {item.question, item.owner, item.due}
    ELSE IF l = "next_steps" THEN {item.action, item.owner, item.due}
    ELSE IF l = "risks" THEN {item.risk, item.mitigation}
    ELSE IF l = "stakeholders" THEN {item.name, item.role, item.influence}
    ELSE {item.pointer, item.excerpt}

\* Some string the schema reads as trimmedString is empty or all whitespace
HasBlankString(a) ==
    \/ \E v \in {a.deal_id, a.deal_name, a.source_canvas_name, a.doc_title} : IsBlank(v)
    \/ /\ a.context.t = "obj"
       /\ \/ IsBlank(a.context.summary)
          \/ /\ a.context.key_points.t = "arr"
             /\ \E i \in 1..Len(a.context.key_points.items) :
                   IsBlank(a.context.key_points.items[i])
          \/ \E l \in ObjectLists :
                /\ a.context[l].t = "arr"
                /\ \E i \in 1..Len(a.context[l].items) :
                      /\ a.context[l].items[i].t = "obj"
                      /\ \E v \in ItemStrings(l, a.context[l].items[i]) : IsBlank(v)

\* C2: validation rejects every string field that is empty or only whitespace,
\* so a validated request has a summary that is non-empty after trimming.
C2_BlankStringRejected ==
    /\ (parsed.done /\ HasBlankString(vargs)) => ~parsed.success
    /\ (parsed.done /\ parsed.success) => Trim(parsed.data.context.summary.s) # <<>>

\* C2, the case: arguments with a whitespace-only summary were validated
C2_Witness == parsed.done /\ vargs.context.t = "obj" /\ vargs.context.summary = Str(Blank)

\* C3: in every validated request each of the six context lists is an array,
\* and the empty array when the list was absent on input.
C3_ArraysNeverAbsent ==
    (parsed.done /\ parsed.success) =>
        \A l \in Range(ListFields) :
            /\ parsed.data.context[l].t = "arr"
            /\ vargs.context[l].t = "absent" => parsed.data.context[l].items = <<>>
            /\ vargs.context[l].t = "arr" =>
                  Len(parsed.data.context[l].items) = Len(vargs.context[l].items)

\* C3, the case: a request with one list given and the others absent validated
C3_Witness ==
    /\ parsed.done
    /\ parsed.success
    /\ vargs.context.risks.t = "arr"
    /\ Len(vargs.context.risks.items) = 1
    /\ vargs.context.key_points.t = "absent"
    /\ parsed.data.context.key_points = Arr(<<>>)


----------------------------------------------------------------------------
(* Properties of the route (Spec) *)

\* The message of a handleMessage call
MessageOf(i) == body.msgs[i]

\* The "end" events: the handleMessage calls that returned
Ends == {k \in 1..Len(events) : events[k].ev = "end"}

PostsOf(i) == {k \in 1..Len(posts) : posts[k].i = i}

\* A well-formed envelope: an object with jsonrpc "2.0" and a non-empty
\* string method
IsEnvelope(m) ==
    m.t = "obj" /\ m.jsonrpc = Str(<<"2.0">>) /\ m.method.t = "str" /\ m.method.s # <<>>

HasId(m) == m.id.t # "absent"

\* An id-bearing tools/call envelope
IsToolsCall(m) == IsEnvelope(m) /\ HasId(m) /\ m.method.s = <<"tools/call">>

\* The tool name as the claim reads it: params.name when it is a string
ToolName(m) ==
    IF m.params.t = "obj" /\ m.params.name.t = "str" THEN m.params.name.s ELSE <<>>

ArgumentsOf(m) ==
    IF m.params.t = "obj" /\ m.params.arguments.t = "obj"
    THEN m.params.arguments.value ELSE EmptyArgs

IsSummarizeCall(m) == IsToolsCall(m) /\ ToolName(m) = <<"summarize_context">>

WebhookConfigured ==
    /\ env.DOC_WEBHOOK_URL.t = "str" /\ env.DOC_WEBHOOK_URL.s # <<>>
    /\ env.DOC_WEBHOOK_TOKEN.t = "str" /\ env.DOC_WEBHOOK_TOKEN.s # <<>>

\* C4: every message causes at most one webhook POST, and none unless it has
\* an id, is a tools/call of summarize_context with valid arguments, and both
\* the webhook URL and the token are configured.
C4_AtMostOnePost ==
    \A i \in 1..Len(body.msgs) :
        /\ Cardinality(PostsOf(i)) <= 1
        /\ PostsOf(i) # {} =>
              /\ IsSummarizeCall(MessageOf(i))
              /\ safeParse(ArgumentsOf(MessageOf(i))).success
              /\ WebhookConfigured

\* C4, the case: the one POST failed and was not tried again
C4_Witness ==
    /\ pc = "done"
    /\ Len(posts) = 1
    /\ \E k \in 1..Len(events) :
          events[k].ev = "settled" /\ events[k].outcome.kind = "reject"

\* The fetch outcome of call i, if its POST has settled
SettledOk(i) ==
    \E k \in 1..Len(events) :
        /\ events[k].ev = "settled"
        /\ events[k].i = i
        /\ events[k].outcome.kind = "response"
        /\ events[k].outcome.status \in 200..399

\* C5: a valid summarize_context call has isError false exactly when the
\* webhook is configured and its POST returned a status in 200..399; otherwise
\* (no configuration, another status, a transport failure) the call still
\* returns a result, with isError true and a text beginning "Doc push: failed".
C5_IsErrorMirrorsPush ==
    /\ \A k \in Ends :
        LET m == MessageOf(events[k].i)
            r == events[k].response
        IN (IsSummarizeCall(m) /\ safeParse(ArgumentsOf(m)).success) =>
              /\ r.kind = "result"
              /\ r.result.isError = ~(WebhookConfigured /\ SettledOk(events[k].i))
              /\ r.result.isError => StartsWith(r.result.text, <<"Doc push: failed">>)
    /\ pc = "done" =>
          \A i \in 1..Len(body.msgs) :
              IsSummarizeCall(MessageOf(i)) => \E k \in Ends : events[k].i = i

\* C5, the case: the webhook answered with a redirect and the push succeeded
C5_Witness ==
    \E k \in Ends :
        /\ IsSummarizeCall(MessageOf(events[k].i))
        /\ ~events[k].response.result.isError
        /\ \E j \in 1..Len(events) :
              events[j].ev = "settled" /\ events[j].outcome.status = 302

\* The events of handleMessage calls 1..n, each run from its start to its end
\* before the next starts
RECURSIVE InOrder(_, _)
InOrder(evs, i) ==
    IF evs = <<>> THEN TRUE
    ELSE /\ evs[1].ev = "start"
         /\ evs[1].i = i
         /\ LET rest == Tail(evs)
                k == IF \E j \in 1..Len(rest) : rest[j].ev = "end"
                     THEN CHOOSE j \in 1..Len(rest) :
                              rest[j].ev = "end" /\ \A h \in 1..(j - 1) : rest[h].ev # "end"
                     ELSE 0
            IN IF k = 0
               THEN \A j \in 1..Len(rest) : rest[j].ev # "start" /\ rest[j].i = i
               ELSE /\ \A j \in 1..k : rest[j].ev # "start" /\ rest[j].i = i
                    /\ InOrder(SubSeq(rest, k + 1, Len(rest)), i + 1)

IsEnd(e) == e.ev = "end"
NotNull(e) == e.response.kind # "null"

\* The non-null responses the calls returned, in the order of the calls
Returns ==
    LET ends == SelectSeq(SelectSeq(events, IsEnd), NotNull)
    IN [k \in 1..Len(ends) |-> ends[k].response]

\* C6: a batch is handled one message at a time in array order; the reply is
\* the array of the non-null responses in that order, or 204 with no body
\* when there is none.
C6_BatchInOrder ==
    body.kind = "batch" =>
        /\ InOrder(events, 1)
        /\ pc = "done" =>
              /\ Cardinality(Ends) = Len(body.msgs)
              /\ IF Returns = <<>>
                 THEN reply.status = 204 /\ reply.kind = "none" /\ reply.body = <<>>
                 ELSE reply.status = 200 /\ reply.kind = "array" /\ reply.body = Returns

\* C6, the case: a notification and a request; one response
C6_Witness ==
    /\ pc = "done"
    /\ body.kind = "batch"
    /\ Len(body.msgs) = 2
    /\ ~HasId(body.msgs[1])
    /\ body.msgs[2].method = Str(<<"tools/list">>)
    /\ Len(reply.body) = 1
    /\ reply.body[1].result.shape = "tools"

\* C7: a well-formed envelope is answered exactly when it carries an id;
\* initialized and notifications/initialized with an id get an empty result;
\* without an id nothing is returned and no POST is made.
C7_ResponseIffId ==
    \A k \in Ends :
        LET m == MessageOf(events[k].i)
            r == events[k].response
        IN IsEnvelope(m) =>
              /\ (r.kind # "null") = HasId(m)
              /\ r.kind \in {"null", "result", "error"}
              /\ (HasId(m) /\ m.method.s \in {<<"initialized">>,
                                              <<"notifications/initialized">>}) =>
                    (r.kind = "result" /\ r.result.shape = "empty")
              /\ ~HasId(m) => PostsOf(events[k].i) = {}

\* C7, the case: a request whose id is null is answered
C7_Witness ==
    \E k \in Ends :
        /\ IsEnvelope(MessageOf(events[k].i))
        /\ MessageOf(events[k].i).id = NullId
        /\ events[k].response.kind = "result"

\* The id a protocol error must carry
ErrorId(m) == IF m.id.t \in {"str", "num"} THEN m.id ELSE NullId

RecognisedMethods ==
    {<<"initialize">>, <<"initialized">>, <<"notifications/initialized">>,
     <<"tools/list">>, <<"tools/call">>}

\* C8: a malformed envelope yields error -32600 and an unrecognised method
\* with an id yields -32601, each keyed to the message's id when that is a
\* string or a number and to null otherwise.
C8_ProtocolErrors ==
    \A k \in Ends :
        LET m == MessageOf(events[k].i)
            r == events[k].response
        IN /\ m.t # "obj" => (r.kind = "error" /\ r.code = -32600 /\ r.id = NullId)
           /\ (m.t = "obj" /\ ~IsEnvelope(m)) =>
                 (r.kind = "error" /\ r.code = -32600 /\ r.id = ErrorId(m))
           /\ (IsEnvelope(m) /\ HasId(m) /\ m.method.s \notin RecognisedMethods) =>
                 (r.kind = "error" /\ r.code = -32601 /\ r.id = ErrorId(m))

\* C8, the case: an unknown method with a boolean id, answered with a null id
C8_Witness ==
    \E k \in Ends :
        /\ MessageOf(events[k].i).id = BoolId
        /\ events[k].response.code = -32601
        /\ events[k].response.id = NullId

\* The line of one violation: "- ", the path joined by dots, ": ", the message
IsViolationLine(line, issue) ==
    /\ StartsWith(line, <<"- ">> \o Join([i \in 1..Len(issue.path) |-> <<issue.path[i]>>],
                                         <<".">>) \o <<": ">>)
    /\ issue.path # <<>>

\* C9: an id-bearing tools/call is always answered with a result: isError for
\* a missing name, an unknown tool (named in the text) and a validation
\* failure (every violation on a line of its own after its path); healthcheck
\* gives isError false whatever its arguments.
C9_ToolErrorsAreResults ==
    \A k \in Ends :
        LET m == MessageOf(events[k].i)
            r == events[k].response
            name == ToolName(m)
            v == safeParse(ArgumentsOf(m))
            lines == SplitLines(r.result.text)
        IN IsToolsCall(m) =>
              /\ r.kind = "result"
              /\ name = <<>> => r.result.isError
              /\ name = <<"healthcheck">> => ~r.result.isError
              /\ name \notin {<<>>, <<"healthcheck">>, <<"summarize_context">>} =>
                    /\ r.result.isError
                    /\ Len(r.result.text) >= Len(name)
                    /\ SubSeq(r.result.text, Len(r.result.text) - Len(name) + 1,
                              Len(r.result.text)) = name
              /\ (name = <<"summarize_context">> /\ ~v.success) =>
                    /\ r.result.isError
                    /\ Len(lines) = 1 + Len(v.issues)
                    /\ \A j \in 1..Len(v.issues) :
                          j + 1 <= Len(lines) => IsViolationLine(lines[j + 1], v.issues[j])

\* C9, the case: a summarize_context call that failed validation was answered
C9_Witness ==
    \E k \in Ends :
        /\ IsSummarizeCall(MessageOf(events[k].i))
        /\ ~safeParse(ArgumentsOf(MessageOf(events[k].i))).success


----------------------------------------------------------------------------
(* Properties of the formatter (SpecFormat) *)

SectionHeader(l) ==
    IF l = "key_points" THEN <<"## Key Points">>
    ELSE IF l = "risks" THEN <<"## Risks">>
    ELSE IF l = "open_questions" THEN <<"## Open Questions">>
    ELSE IF l = "next_steps" THEN <<"## Next Steps">>
    ELSE <<"## Stakeholders">>

\* The lines of a section: those after its header, up to the next empty line
SectionLines(text, header) ==
    LET lines == SplitLines(text)
        h == CHOOSE i \in 1..Len(lines) :
                 lines[i] = header /\ \A j \in 1..(i - 1) : lines[j] # header
        after == SubSeq(lines, h + 1, Len(lines))
        stop == IF \E i \in 1..Len(after) : after[i] = <<>>
                THEN CHOOSE i \in 1..Len(after) :
                         after[i] = <<>> /\ \A j \in 1..(i - 1) : after[j] # <<>>
                ELSE Len(after) + 1
    IN SubSeq(after, 1, stop - 1)

\* The text an item is listed under
ItemTitle(l, item) ==
    IF l = "key_points" THEN item.s
    ELSE IF l = "risks" THEN item.risk.s
    ELSE IF l = "open_questions" THEN item.question.s
    ELSE IF l = "next_steps" THEN item.action.s
    ELSE item.name.s

NotWs(c) == ~IsWs(c)

Contains(s, sub) ==
    \E p \in 1..(Len(s) - Len(sub) + 1) : SubSeq(s, p, p + Len(sub) - 1) = sub

\* A line of the section that lists the item: a bullet holding the item's words
IsItemLine(line, l, item) ==
    /\ StartsWith(line, <<"- ">>)
    /\ ~StartsWith(line, <<"- ", "...">>)
    /\ Contains(SelectSeq(line, NotWs), SelectSeq(ItemTitle(l, item), NotWs))

\* C10: each of the five list sections of formatSummary's text is the single
\* line "- None" for an empty list, one line per item in input order for 1 to
\* 8 items, and the first 8 items followed by "- ... (+N more)", N = n - 8,
\* for more than 8.
C10_ListSections ==
    ftext.done =>
        \A s \in 1..Len(FormatSections) :
            LET l == FormatSections[s]
                items == finput.context[l].items
                n == Len(items)
                lines == SectionLines(ftext.text, SectionHeader(l))
            IN IF n = 0 THEN lines = << <<"- ", "None">> >>
               ELSE IF n <= 8
               THEN /\ Len(lines) = n
                    /\ \A i \in 1..n : IsItemLine(lines[i], l, items[i])
               ELSE /\ Len(lines) = 9
                    /\ \A i \in 1..8 : IsItemLine(lines[i], l, items[i])
                    /\ lines[9] = <<"- ", "...", " ", "(+", ToString(n - 8), " ", "more)">>

\* C10, the case: ten risks with stray line breaks, eight listed and two more
C10_Witness ==
    /\ ftext.done
    /\ Len(finput.context.risks.items) = 10
    /\ "\n" \in Range(finput.context.risks.items[10].risk.s)
    /\ Len(finput.context.key_points.items) = 0
    /\ Contains(ftext.text, <<"(+", "2", " ", "more)">>)

----------------------------------------------------------------------------
(* The fenced block read back: JSON.parse on the lines between the fences. *)
(* A parsed value is a string, an array or an object; an object is the set *)
(* of its members, so that the order of keys does not count.               *)

JStr(s) == [k |-> "string", s |-> s, items |-> <<>>, members |-> {}]
JArr(items) == [k |-> "array", s |-> <<>>, items |-> items, members |-> {}]
JObj(members) == [k |-> "object", s |-> <<>>, items |-> <<>>, members |-> members]

ParseFailed == [ok |-> FALSE, v |-> JStr(<<>>), next |-> 0]
Parsed(v, next) == [ok |-> TRUE, v |-> v, next |-> next]

RECURSIVE SkipWs(_, _)
SkipWs(t, i) == IF i <= Len(t) /\ IsWs(t[i]) THEN SkipWs(t, i + 1) ELSE i

\* The characters a JSON string literal may not hold as they are
RawForbidden == {"\n", "\t", "\\", "\""}

Unescape(s) ==
    [i \in 1..Len(s) |->
        IF s[i] = "\\n" THEN "\n"
        ELSE IF s[i] = "\\t" THEN "\t"
        ELSE IF s[i] = "\\\"" THEN "\""
        ELSE IF s[i] = "\\\\" THEN "\\"
        ELSE s[i]]

\* A string literal whose opening quote is t[i]
ParseString(t, i) ==
    IF ~(\E j \in (i + 1)..Len(t) : t[j] = "\"") THEN ParseFailed
    ELSE LET j == CHOOSE e \in (i + 1)..Len(t) :
                      t[e] = "\"" /\ \A m \in (i + 1)..(e - 1) : t[m] # "\""
             raw == SubSeq(t, i + 1, j - 1)
         IN IF \E m \in 1..Len(raw) : raw[m] \in RawForbidden THEN ParseFailed
            ELSE Parsed(JStr(Unescape(raw)), j + 1)

RECURSIVE ParseValue(_, _), ParseElements(_, _, _), ParseMembers(_, _, _)

ParseValue(t, from) ==
    LET i == SkipWs(t, from)
    IN IF i > Len(t) THEN ParseFailed
       ELSE IF t[i] = "\"" THEN ParseString(t, i)
       ELSE IF t[i] = "[]" THEN Parsed(JArr(<<>>), i + 1)
       ELSE IF t[i] = "{}" THEN Parsed(JObj({}), i + 1)
       ELSE IF t[i] = "[" THEN ParseElements(t, i + 1, <<>>)
       ELSE IF t[i] = "{" THEN ParseMembers(t, i + 1, {})
       ELSE ParseFailed

\* The elements of an array after its bracket or a comma, up to the closing one
ParseElements(t, from, acc) ==
    LET r == ParseValue(t, from)
    IN IF ~r.ok THEN ParseFailed
       ELSE LET j == SkipWs(t, r.next)
            IN IF j > Len(t) THEN ParseFailed
               ELSE IF t[j] = "," THEN ParseElements(t, j + 1, Append(acc, r.v))
               ELSE IF t[j] = "]" THEN Parsed(JArr(Append(acc, r.v)), j + 1)
               ELSE ParseFailed

\* The members of an object after its brace or a comma, up to the closing one
ParseMembers(t, from, acc) ==
    LET i == SkipWs(t, from)
    IN IF i > Len(t) \/ t[i] # "\"" THEN ParseFailed
       ELSE LET key == ParseString(t, i)
                c == SkipWs(t, key.next)
            IN IF ~key.ok \/ c > Len(t) \/ t[c] # ":" THEN ParseFailed
               ELSE LET r == ParseValue(t, c + 1)
                        j == SkipWs(t, r.next)
                        members == acc \cup {[key |-> key.v.s, v |-> r.v]}
                    IN IF ~r.ok \/ j > Len(t) THEN ParseFailed
                       ELSE IF t[j] = "," THEN ParseMembers(t, j + 1, members)
                       ELSE IF t[j] = "}" THEN Parsed(JObj(members), j + 1)
                       ELSE ParseFailed

\* JSON.parse: one value and nothing but whitespace after it
JsonParse(t) ==
    LET r == ParseValue(t, 1)
    IN IF r.ok /\ SkipWs(t, r.next) > Len(t) THEN r ELSE ParseFailed

\* The validated request as a plain value: a member for every key that is set
StringMember(key, v) ==
    IF v.t = "absent" THEN {} ELSE {[key |-> <<key>>, v |-> JStr(v.s)]}

ListMember(key, items) == {[key |-> <<key>>, v |-> JArr(items)]}

PlainQuestion(item) ==
    JObj(StringMember("question", item.question) \cup StringMember("owner", item.owner)
         \cup StringMember("due", item.due))

PlainNextStep(item) ==
    JObj(StringMember("action", item.action) \cup StringMember("owner", item.owner)
         \cup StringMember("due", item.due) \cup StringMember("status", item.status))

PlainRisk(item) ==
    JObj(StringMember("risk", item.risk) \cup StringMember("severity", item.severity)
         \cup StringMember("mitigation", item.mitigation))

PlainStakeholder(item) ==
    JObj(StringMember("name", item.name) \cup StringMember("role", item.role)
         \cup StringMember("influence", item.influence))

PlainEvidence(item) ==
    JObj(StringMember("type", item.type) \cup StringMember("pointer", item.pointer)
         \cup StringMember("excerpt", item.excerpt))

PlainContext(c) ==
    JObj(StringMember("summary", c.summary)
         \cup ListMember("key_points",
                         [i \in 1..Len(c.key_points.items) |-> JStr(c.key_points.items[i].s)])
         \cup ListMember("open_questions",
                         [i \in 1..Len(c.open_questions.items) |->
                            PlainQuestion(c.open_questions.items[i])])
         \cup ListMember("next_steps",
                         [i \in 1..Len(c.next_steps.items) |->
                            PlainNextStep(c.next_steps.items[i])])
         \cup ListMember("risks",
                         [i \in 1..Len(c.risks.items) |-> PlainRisk(c.risks.items[i])])
         \cup ListMember("stakeholders",
                         [i \in 1..Len(c.stakeholders.items) |->
                            PlainStakeholder(c.stakeholders.items[i])])
         \cup ListMember("evidence",
                         [i \in 1..Len(c.evidence.items) |->
                            PlainEvidence(c.evidence.items[i])])
         \cup StringMember("last_updated", c.last_updated))

PlainInput(input) ==
    JObj(StringMember("deal_id", input.deal_id)
         \cup StringMember("deal_name", input.deal_name)
         \cup StringMember("source_canvas_name", input.source_canvas_name)
         \cup {[key |-> <<"context">>, v |-> PlainContext(input.context)]}
         \cup StringMember("output_format", input.output_format)
         \cup StringMember("doc_title", input.doc_title))

\* The lines that open a fenced JSON block
Openings(lines) == {i \in 1..Len(lines) : lines[i] = <<Fence, "json">>}

\* The lines of the block opened at line o: up to the next closing fence
BlockLines(lines, o) ==
    LET closings == {j \in (o + 1)..Len(lines) : lines[j] = <<Fence>>}
        c == CHOOSE j \in closings : \A m \in closings : j <= m
    IN IF closings = {} THEN SubSeq(lines, o + 1, Len(lines))
       ELSE SubSeq(lines, o + 1, c - 1)

\* C11: formatSummary's text holds a fenced JSON block exactly when
\* output_format is not exec_bullets; the block is the end of the text, and
\* parsing it gives the validated request, member for member and item for
\* item, the items past the display cap included.
C11_JsonBlockRoundTrip ==
    ftext.done =>
        LET lines == SplitLines(ftext.text)
            opens == Openings(lines)
        IN /\ (opens # {}) = (finput.output_format.s # <<"exec_bullets">>)
           /\ opens # {} =>
                LET o == CHOOSE i \in opens : TRUE
                    block == BlockLines(lines, o)
                    r == JsonParse(Join(block, NL))
                IN /\ Cardinality(opens) = 1
                   /\ lines[Len(lines)] = <<Fence>>
                   /\ o + Len(block) + 1 = Len(lines)
                   /\ r.ok
                   /\ r.v = PlainInput(finput)

\* C11, the case: a memo with ten stakeholders whose optional members hold a
\* line break, a quote and a backslash; the block parses to an object whose
\* stakeholders array has all ten
C11_Witness ==
    /\ ftext.done
    /\ finput.output_format.s = <<"memo">>
    /\ Len(finput.context.stakeholders.items) = 10
    /\ "\"" \in Range(finput.context.stakeholders.items[10].role.s)
    /\ LET lines == SplitLines(ftext.text)
           o == CHOOSE i \in Openings(lines) : TRUE
           r == JsonParse(Join(BlockLines(lines, o), NL))
       IN /\ Openings(lines) # {}
          /\ r.ok
          /\ \E m \in r.v.members : \E c \in m.v.members :
                c.key = <<"stakeholders">> /\ Len(c.v.items) = 10

----------------------------------------------------------------------------
(* Properties of the log (Spec) *)

\* The correlation id handleMessage gives a message: String(id) of the
\* coerced id, "notification" without an id
RequestIdOf(m) ==
    IF ~HasId(m) THEN <<"notification">>
    ELSE IF m.id.t \in {"str", "num"} THEN <<m.id.v>>
    ELSE <<"null">>

\* A log entry that records the correlation id of message m (of any message,
\* when m is no object and has none)
RecordsRequestId(entry, m) ==
    \E k \in 1..Len(entry.meta) :
        /\ entry.meta[k].key = "request_id"
        /\ m.t = "obj" => entry.meta[k].value = safeValue(Str(RequestIdOf(m)))

\* A step in which a handleMessage call returns
CallReturns == Len(events') > Len(events) /\ events'[Len(events')].ev = "end"

\* C12: whenever a handleMessage call returns, on whichever path, the call
\* has written at least one log entry that records the request correlation
\* id before its response (or null) goes back to POST.
C12_EveryPathLogs ==
    [][CallReturns =>
          \E j \in (Len(logs) + 1)..Len(logs') :
              RecordsRequestId(logs'[j], MessageOf(events'[Len(events')].i))]_vars

\* C12, the case: a message without jsonrpc "2.0" has been answered with
\* -32600 and nothing has been logged
C12_Witness ==
    /\ logs = <<>>
    /\ \E k \in Ends :
          /\ MessageOf(events[k].i).t = "obj"
          /\ MessageOf(events[k].i).jsonrpc # Str(<<"2.0">>)
          /\ events[k].response.kind = "error"
          /\ events[k].response.code = -32600

\* The text a string value is logged as when nothing is cut
Normalized(s) == Trim(CollapseWs(s))

Ellipsis == <<".", ".", ".">>

EndsWith(s, e) == Len(s) >= Len(e) /\ SubSeq(s, Len(s) - Len(e) + 1, Len(s)) = e

\* C13: every string that log() writes as a metadata value has at most 120
\* characters; a string whose normalized form is longer is logged cut, ending
\* in the ellipsis marker, the marker counted in the 120; a string whose
\* normalized form is no longer than 120 is logged as that form.
C13_LoggedStringsBounded ==
    \A j \in 1..Len(logs) : \A k \in 1..Len(logs[j].meta) :
        LET out == logs[j].meta[k].value
        IN /\ out.t = "str" => Len(out.s) <= 120
           /\ lvalue.t = "str" =>
                 /\ out.t = "str"
                 /\ IF Len(Normalized(lvalue.s)) > 120
                    THEN EndsWith(out.s, Ellipsis) /\ Len(out.s) <= 120
                    ELSE out.s = Normalized(lvalue.s)

\* C13, the case: a string of 121 characters after normalization has been
\* logged, as its first 120 characters and three dots
C13_Witness ==
    /\ lvalue.t = "str"
    /\ Len(Normalized(lvalue.s)) = 121
    /\ Len(logs) = 1
    /\ Len(logs[1].meta[1].value.s) = 123
    /\ EndsWith(logs[1].meta[1].value.s, Ellipsis)


====
